---- MODULE Spec2Model ----
(***************************************************************************)
(* A model of the helper functions of src/src/helper.js: the polling and   *)
(* retry utilities (poll, retry, nap), the amount conversions (toSatoshis, *)
(* toAmount), getTimeTilAvailable and generateArc, with the spinner that   *)
(* calls generateArc (src/unnamed/part_001).                               *)
(*                                                                         *)
(* A JavaScript value is a pair <<type, text>> of strings, an Error is     *)
(* <<"Error", message>>, and a JavaScript number that can be infinite is a *)
(* record [inf, n].                                                        *)
(***************************************************************************)
EXTENDS Integers, Sequences, FiniteSets, TLC

VARIABLES
    fn,          \* the utility that was called: "none", "poll" or "retry"
    pc,          \* where the async function stands: idle, await_api, await_nap, done
    interval,    \* its interval argument (milliseconds)
    maxAttempts, \* its retries argument, as passed by the caller
    retries,     \* the local retries, decremented by the loop test
    outstanding, \* invocations of api() that have not settled yet
    log,         \* how each invocation of api() settled, in order
    trace,       \* the invocations, settlements and naps, in order
    outcome,     \* how the call ended: pending, return (val) or throw (val)
    conv,        \* the amount conversions: arguments and results
    arc,         \* generateArc: arguments and result
    til          \* getTimeTilAvailable: argument and result

asyncVars == <<fn, pc, interval, maxAttempts, retries, outstanding, log, trace, outcome>>
pureVars == <<conv, arc, til>>
vars == <<asyncVars, pureVars>>

-----------------------------------------------------------------------------
(* Bounds of the model *)

\* invocations of api() within one call, and the largest finite retries argument
MaxCalls == 3

-----------------------------------------------------------------------------
(* JavaScript values *)

Undefined == <<"undefined", "undefined">>
Null == <<"null", "null">>
False == <<"boolean", "false">>
True == <<"boolean", "true">>
Zero == <<"number", "0">>
Obj == <<"object", "{}">>

\* what api() may resolve with
JsValues == {Undefined, Null, False, Zero, True, Obj}

\* ToBoolean, as `if (response)` applies it
Truthy(v) == v \notin {Undefined, Null, False, Zero, <<"number", "NaN">>, <<"string", "">>}

\* what api() may throw or reject with
ApiErrors == {<<"Error", "api failed: A">>, <<"Error", "api failed: B">>}

\* how one invocation of api() can settle
ApiResults == [kind : {"resolve"}, val : JsValues] \cup [kind : {"reject"}, val : ApiErrors]

\* a number that may be Infinity
Num(n) == [inf |-> FALSE, n |-> n]
Infinity == [inf |-> TRUE, n |-> 0]

\* ToBoolean of a number: every number but 0 is truthy
NumTruthy(r) == r.inf \/ r.n # 0

\* r - 1 (Infinity - 1 is Infinity)
Dec(r) == IF r.inf THEN r ELSE [r EXCEPT !.n = @ - 1]

\* the retries arguments a caller passes: the default, zero, positive, negative
Budgets == {Infinity} \cup {Num(n) : n \in -1..MaxCalls}

\* the interval arguments a caller passes
Intervals == {1, 100}

\* how a call ended, and the line of helper.js it ended at
Pending == [kind |-> "pending", val |-> Undefined, line |-> 0]
Return(v, l) == [kind |-> "return", val |-> v, line |-> l]
Throw(e, l) == [kind |-> "throw", val |-> e, line |-> l]

MaxRetriesExceeded == <<"Error", "Maximum retries for polling reached">>

-----------------------------------------------------------------------------
(* poll *)

\* (mutant) `while (--retries)`: the value after the decrement is tested
PollWhileTestPre(r) == NumTruthy(Dec(r))

\* the value `retries--` tests: the value before the decrement
PollWhileTest(r) == NumTruthy(r)

\* `while (retries--)` and what follows without yielding: api() is invoked,
\* or the loop is left and the error is thrown
PollLoopHead(r, tr) ==
    /\ retries' = Dec(r)
    /\ IF PollWhileTest(r)
       THEN /\ Len(log) < MaxCalls
            /\ outstanding' = outstanding + 1
            /\ trace' = Append(tr, <<"invoke", 0>>)
            /\ pc' = "await_api"
            /\ outcome' = Pending
       ELSE /\ outcome' = Throw(MaxRetriesExceeded, 284)
            /\ pc' = "done"
            /\ trace' = tr
            /\ UNCHANGED outstanding

\* poll(api, interval, retries) is called
PollCall ==
    /\ pc = "idle"
    /\ \E i \in Intervals, r \in Budgets :
        /\ fn' = "poll"
        /\ interval' = i
        /\ maxAttempts' = r
        /\ PollLoopHead(r, trace)
    /\ UNCHANGED <<log, pureVars>>

\* (mutant) poll swallows a failure and sleeps, as retry does
PollOnSettledSwallow(res) ==
    IF res.kind = "resolve" /\ Truthy(res.val)
    THEN /\ outcome' = Return(res.val, 281)
         /\ pc' = "done"
         /\ trace' = Append(trace, <<"settle", 0>>)
    ELSE /\ outcome' = outcome
         /\ pc' = "await_nap"
         /\ trace' = trace \o <<(<<"settle", 0>>), (<<"nap", interval>>)>>

\* (mutant) poll returns whatever api() resolves with, truthy or not
PollOnSettledAny(res) ==
    /\ outcome' = IF res.kind = "reject" THEN Throw(res.val, 280) ELSE Return(res.val, 281)
    /\ pc' = "done"
    /\ trace' = Append(trace, <<"settle", 0>>)

\* what poll does with a settled invocation
PollOnSettled(res) ==
    IF res.kind = "reject"
    THEN /\ outcome' = Throw(res.val, 280)
         /\ pc' = "done"
         /\ trace' = Append(trace, <<"settle", 0>>)
    ELSE IF Truthy(res.val)
    THEN /\ outcome' = Return(res.val, 281)
         /\ pc' = "done"
         /\ trace' = Append(trace, <<"settle", 0>>)
    ELSE /\ outcome' = outcome
         /\ pc' = "await_nap"
         /\ trace' = trace \o <<(<<"settle", 0>>), (<<"nap", interval>>)>>

\* `await api()` resumes in poll
PollApiSettles ==
    /\ fn = "poll"
    /\ pc = "await_api"
    /\ \E res \in ApiResults :
        /\ log' = Append(log, res)
        /\ PollOnSettled(res)
    /\ outstanding' = outstanding - 1
    /\ UNCHANGED <<fn, interval, maxAttempts, retries, pureVars>>

\* `await nap(interval)` resumes in poll, and the loop goes round
PollNapEnds ==
    /\ fn = "poll"
    /\ pc = "await_nap"
    /\ PollLoopHead(retries, Append(trace, <<"wake", interval>>))
    /\ UNCHANGED <<fn, interval, maxAttempts, log, pureVars>>

-----------------------------------------------------------------------------
(* retry *)

\* the value `retries--` tests in retry
RetryWhileTest(r) == NumTruthy(r)

\* `while (retries--)` and what follows without yielding: api() is invoked in
\* the try block, or the loop is left and null is returned
RetryLoopHead(r, tr) ==
    /\ retries' = Dec(r)
    /\ IF RetryWhileTest(r)
       THEN /\ Len(log) < MaxCalls
            /\ outstanding' = outstanding + 1
            /\ trace' = Append(tr, <<"invoke", 0>>)
            /\ pc' = "await_api"
            /\ outcome' = Pending
       ELSE /\ outcome' = Return(Null, 305)
            /\ pc' = "done"
            /\ trace' = tr
            /\ UNCHANGED outstanding

\* retry(api, interval, retries) is called
RetryCall ==
    /\ pc = "idle"
    /\ \E i \in Intervals, r \in Budgets :
        /\ fn' = "retry"
        /\ interval' = i
        /\ maxAttempts' = r
        /\ RetryLoopHead(r, trace)
    /\ UNCHANGED <<log, pureVars>>

\* (mutant) the catch block rethrows while one attempt is still left
RetryRethrowsEarly(r) == ~NumTruthy(Dec(r))

\* (mutant) the catch block never rethrows
RetryRethrowsNever(r) == FALSE

\* `if (!retries) throw err`: whether the catch block rethrows
RetryRethrows(r) == ~NumTruthy(r)

\* (mutant) retry returns a result only when it is truthy, as poll does
RetryOnSettledTruthy(res) ==
    IF res.kind = "resolve" /\ Truthy(res.val)
    THEN /\ outcome' = Return(res.val, 299)
         /\ pc' = "done"
         /\ trace' = Append(trace, <<"settle", 0>>)
    ELSE IF res.kind = "reject" /\ ~NumTruthy(retries)
    THEN /\ outcome' = Throw(res.val, 301)
         /\ pc' = "done"
         /\ trace' = Append(trace, <<"settle", 0>>)
    ELSE /\ outcome' = outcome
         /\ pc' = "await_nap"
         /\ trace' = trace \o <<(<<"settle", 0>>), (<<"nap", interval>>)>>

\* (mutant) retry sleeps once more before it rethrows the last failure
RetryOnSettledNapBeforeThrow(res) ==
    IF res.kind = "resolve"
    THEN /\ outcome' = Return(res.val, 299)
         /\ pc' = "done"
         /\ trace' = Append(trace, <<"settle", 0>>)
    ELSE IF RetryRethrows(retries)
    THEN /\ outcome' = Throw(res.val, 301)
         /\ pc' = "done"
         /\ trace' = trace \o <<(<<"settle", 0>>), (<<"nap", interval>>), (<<"wake", interval>>)>>
    ELSE /\ outcome' = outcome
         /\ pc' = "await_nap"
         /\ trace' = trace \o <<(<<"settle", 0>>), (<<"nap", interval>>)>>

\* what retry does with a settled invocation: `return await api()`, or the
\* catch block and then nap(interval)
RetryOnSettled(res) ==
    IF res.kind = "resolve"
    THEN /\ outcome' = Return(res.val, 299)
         /\ pc' = "done"
         /\ trace' = Append(trace, <<"settle", 0>>)
    ELSE IF RetryRethrows(retries)
    THEN /\ outcome' = Throw(res.val, 301)
         /\ pc' = "done"
         /\ trace' = Append(trace, <<"settle", 0>>)
    ELSE /\ outcome' = outcome
         /\ pc' = "await_nap"
         /\ trace' = trace \o <<(<<"settle", 0>>), (<<"nap", interval>>)>>

\* `await api()` resumes in retry
RetryApiSettles ==
    /\ fn = "retry"
    /\ pc = "await_api"
    /\ \E res \in ApiResults :
        /\ log' = Append(log, res)
        /\ RetryOnSettled(res)
    /\ outstanding' = outstanding - 1
    /\ UNCHANGED <<fn, interval, maxAttempts, retries, pureVars>>

\* `await nap(interval)` resumes in retry, and the loop goes round
RetryNapEnds ==
    /\ fn = "retry"
    /\ pc = "await_nap"
    /\ RetryLoopHead(retries, Append(trace, <<"wake", interval>>))
    /\ UNCHANGED <<fn, interval, maxAttempts, log, pureVars>>

-----------------------------------------------------------------------------
(* The polling and retry utilities as a state machine *)

NoConv == [op |-> "none"]
NoArc == [op |-> "none"]
NoTil == [op |-> "none"]

Init ==
    /\ fn = "none"
    /\ pc = "idle"
    /\ interval = 0
    /\ maxAttempts = Num(0)
    /\ retries = Num(0)
    /\ outstanding = 0
    /\ log = <<>>
    /\ trace = <<>>
    /\ outcome = Pending
    /\ conv = NoConv
    /\ arc = NoArc
    /\ til = NoTil

Next ==
    \/ PollCall
    \/ PollApiSettles
    \/ PollNapEnds
    \/ RetryCall
    \/ RetryApiSettles
    \/ RetryNapEnds

Spec == Init /\ [][Next]_vars

\* every invocation of api() settles and every timer of nap fires: an
\* awaiting poll or retry call is resumed
LiveSpec ==
    /\ Spec
    /\ WF_vars(PollApiSettles) /\ WF_vars(PollNapEnds)
    /\ WF_vars(RetryApiSettles) /\ WF_vars(RetryNapEnds)

-----------------------------------------------------------------------------
(* Strings and numbers of the amount conversions.  A string is a sequence  *)
(* of characters.  An integer is its sign and the decimal digits of its    *)
(* magnitude, so that amounts above 2^31 satoshis can be handled.          *)

\* the longest amount string a caller passes to toSatoshis directly
MaxLen == 3

\* the satoshi arguments of toAmount are m * 10^e with |m| <= MaxSat
MaxSat == 12

Digits == <<"0", "1", "2", "3", "4", "5", "6", "7", "8", "9">>

IsDigit(c) == \E i \in 1..10 : Digits[i] = c

DigitVal(c) == (CHOOSE i \in 1..10 : Digits[i] = c) - 1

Abs(n) == IF n < 0 THEN -n ELSE n

Max(a, b) == IF a >= b THEN a ELSE b

Min(a, b) == IF a <= b THEN a ELSE b

\* k zeros
Zeros(k) == [i \in 1..k |-> "0"]

\* the decimal digits of a natural number
RECURSIVE NatToChars(_)
NatToChars(n) ==
    IF n < 10 THEN <<Digits[n + 1]>>
    ELSE NatToChars(n \div 10) \o <<Digits[(n % 10) + 1]>>

\* the greatest and the least element of a set of integers
MaxOf(S) == CHOOSE i \in S : \A j \in S : j <= i

MinOf(S) == CHOOSE i \in S : \A j \in S : i <= j

\* digits without leading zeros ("0" for zero and for no digits)
Canon(cs) ==
    LET nz == {i \in 1..Len(cs) : cs[i] # "0"}
    IN  IF nz = {} THEN <<"0">> ELSE SubSeq(cs, MinOf(nz), Len(cs))

\* digits written with at least k digits
PadLeft(cs, k) == Zeros(Max(k - Len(cs), 0)) \o cs

\* trailing zeros removed while more than min characters are left
StripZeros(cs, min) ==
    LET keep == {i \in 1..Len(cs) : i <= min \/ cs[i] # "0"}
    IN  IF keep = {} THEN <<>> ELSE SubSeq(cs, 1, MaxOf(keep))

\* the digits of the number after the one with the digits cs: the nines
\* at its end become zeros and the digit before them goes up
DecSucc(cs) ==
    LET no9 == {i \in 1..Len(cs) : cs[i] # "9"}
    IN  IF no9 = {} THEN <<"1">> \o Zeros(Len(cs))
        ELSE SubSeq(cs, 1, MaxOf(no9) - 1) \o <<Digits[DigitVal(cs[MaxOf(no9)]) + 2]>>
             \o Zeros(Len(cs) - MaxOf(no9))

-----------------------------------------------------------------------------
(* Natural numbers of any size, for the arithmetic of JavaScript numbers:  *)
(* the sequence of the digits in base 2^15, the least significant first,   *)
(* without leading zeros; 0 is <<>>.  An operation on the digits i..j is   *)
(* done on the two halves of i..j in turn, the carry going from the one to *)
(* the other.                                                              *)

LimbBits == 15
Base == 32768

\* the i-th digit of x, 0 above its last one
Limb(x, i) == IF i <= Len(x) THEN x[i] ELSE 0

\* the natural number n < Base * Base
BigOf(n) ==
    IF n = 0 THEN <<>>
    ELSE IF n < Base THEN <<n>>
    ELSE <<n % Base, n \div Base>>

\* leading zeros removed
BigTrim(x) ==
    LET nz == {i \in 1..Len(x) : x[i] # 0}
    IN  IF nz = {} THEN <<>> ELSE SubSeq(x, 1, MaxOf(nz))

\* digits and the carry above them
WithCarry(r) == r.digits \o BigOf(r.carry)

\* the digits i..j of x * k + c * Base^(i-1), and the carry
RECURSIVE MulAddCarry(_, _, _, _, _)
MulAddCarry(x, k, i, j, c) ==
    IF i = j
    THEN [digits |-> <<(x[i] * k + c) % Base>>, carry |-> (x[i] * k + c) \div Base]
    ELSE LET lo == MulAddCarry(x, k, i, (i + j) \div 2, c)
             hi == MulAddCarry(x, k, (i + j) \div 2 + 1, j, lo.carry)
         IN  [digits |-> lo.digits \o hi.digits, carry |-> hi.carry]

\* x * k + c for 0 < k < Base and c < Base
BigMulAdd(x, k, c) ==
    IF x = <<>> THEN BigOf(c) ELSE WithCarry(MulAddCarry(x, k, 1, Len(x), c))

BigDouble(x) == BigMulAdd(x, 2, 0)

\* the digits i..j of x + y + c * Base^(i-1), and the carry
RECURSIVE AddCarry(_, _, _, _, _)
AddCarry(x, y, i, j, c) ==
    IF i = j
    THEN [digits |-> <<(Limb(x, i) + Limb(y, i) + c) % Base>>,
          carry |-> (Limb(x, i) + Limb(y, i) + c) \div Base]
    ELSE LET lo == AddCarry(x, y, i, (i + j) \div 2, c)
             hi == AddCarry(x, y, (i + j) \div 2 + 1, j, lo.carry)
         IN  [digits |-> lo.digits \o hi.digits, carry |-> hi.carry]

\* x + y + c
BigAdd(x, y, c) ==
    IF x = <<>> /\ y = <<>> THEN BigOf(c)
    ELSE WithCarry(AddCarry(x, y, 1, Max(Len(x), Len(y)), c))

\* the digits i..j of x - y - b * Base^(i-1), and what is borrowed
RECURSIVE SubBorrow(_, _, _, _, _)
SubBorrow(x, y, i, j, b) ==
    IF i = j
    THEN [digits |-> <<(x[i] - Limb(y, i) - b + Base) % Base>>,
          carry |-> IF x[i] - Limb(y, i) - b < 0 THEN 1 ELSE 0]
    ELSE LET lo == SubBorrow(x, y, i, (i + j) \div 2, b)
             hi == SubBorrow(x, y, (i + j) \div 2 + 1, j, lo.carry)
         IN  [digits |-> lo.digits \o hi.digits, carry |-> hi.carry]

\* x - y for x >= y
BigSub(x, y) == IF x = <<>> THEN <<>> ELSE BigTrim(SubBorrow(x, y, 1, Len(x), 0).digits)

\* -1, 0 or 1 as x is less than, equal to or greater than y
BigCmp(x, y) ==
    IF Len(x) < Len(y) THEN -1
    ELSE IF Len(x) > Len(y) THEN 1
    ELSE LET differ == {i \in 1..Len(x) : x[i] # y[i]}
         IN  IF differ = {} THEN 0
             ELSE IF x[MaxOf(differ)] < y[MaxOf(differ)] THEN -1
             ELSE 1

\* x * Base^k
BigShift(x, k) == IF x = <<>> THEN <<>> ELSE [i \in 1..k |-> 0] \o x

\* x * y
RECURSIVE BigMul(_, _)
BigMul(x, y) ==
    IF x = <<>> \/ y = <<>> THEN <<>>
    ELSE IF Len(y) = 1 THEN BigMulAdd(x, y[1], 0)
    ELSE BigAdd(BigMul(x, BigTrim(SubSeq(y, 1, Len(y) \div 2))),
                BigShift(BigMul(x, SubSeq(y, Len(y) \div 2 + 1, Len(y))), Len(y) \div 2), 0)

\* the digits j..i (the most significant first) of the quotient of x by a
\* d < Base, and the remainder, the digits of x above the j-th having left
\* the remainder r
RECURSIVE DivRem(_, _, _, _, _)
DivRem(x, d, i, j, r) ==
    IF i = j
    THEN [digits |-> <<(r * Base + x[i]) \div d>>, rem |-> (r * Base + x[i]) % d]
    ELSE LET hi == DivRem(x, d, (i + j) \div 2 + 1, j, r)
             lo == DivRem(x, d, i, (i + j) \div 2, hi.rem)
         IN  [digits |-> hi.digits \o lo.digits, rem |-> lo.rem]

\* the quotient, whose digits qr has the most significant first, and the
\* remainder
QuotRem(qr) ==
    [q |-> BigTrim([i \in 1..Len(qr.digits) |-> qr.digits[Len(qr.digits) + 1 - i]]),
     r |-> qr.rem]

\* the quotient and the remainder of x by a d < Base
BigDivSmall(x, d) ==
    IF x = <<>> THEN [q |-> <<>>, r |-> 0] ELSE QuotRem(DivRem(x, d, 1, Len(x), 0))

\* x * 2^k
BigShl(x, k) ==
    IF x = <<>> THEN <<>>
    ELSE BigShift(BigMulAdd(x, 2 ^ (k % LimbBits), 0), k \div LimbBits)

\* floor(x / 2^k)
BigShr(x, k) ==
    IF Len(x) <= k \div LimbBits THEN <<>>
    ELSE BigDivSmall(SubSeq(x, (k \div LimbBits) + 1, Len(x)), 2 ^ (k % LimbBits)).q

\* the number of binary digits of x
BigBitLen(x) ==
    IF x = <<>> THEN 0
    ELSE LimbBits * (Len(x) - 1) + Cardinality({k \in 1..LimbBits : 2 ^ (k - 1) <= x[Len(x)]})

BigIsOdd(x) == x # <<>> /\ x[1] % 2 = 1

\* x * x
BigSquare(x) == BigMul(x, x)

\* 5^k and 10^k
RECURSIVE BigPow5(_)
BigPow5(k) ==
    IF k = 0 THEN <<1>>
    ELSE BigMulAdd(BigSquare(BigPow5(k \div 2)), IF k % 2 = 1 THEN 5 ELSE 1, 0)

BigPow10(k) == BigShl(BigPow5(k), k)

\* x * 10^(j - i + 1) + the number with the decimal digits cs[i..j]: the
\* first half of the digits is appended, then the second (to nothing when
\* there is nothing so far)
RECURSIVE DecAppend(_, _, _, _)
DecAppend(x, cs, i, j) ==
    IF i > j THEN x
    ELSE IF i = j THEN BigMulAdd(x, 10, DigitVal(cs[i]))
    ELSE LET half == DecAppend(x, cs, i, (i + j) \div 2)
         IN  IF half = <<>>
             THEN DecAppend(<<>>, cs, (i + j) \div 2 + 1, j)
             ELSE DecAppend(half, cs, (i + j) \div 2 + 1, j)

\* the number with the decimal digits cs
DecToBig(cs) == DecAppend(<<>>, cs, 1, Len(cs))

\* one more decimal digit of a number: st.q is what is left of it above the
\* digits st.cs
DecimalDigit(st) ==
    LET qr == BigDivSmall(st.q, 10)
    IN  [q |-> qr.q, cs |-> <<Digits[qr.r + 1]>> \o st.cs]

\* up to n more decimal digits, until nothing is left
RECURSIVE DecimalDigits(_, _)
DecimalDigits(st, n) ==
    IF n = 0 \/ st.q = <<>> THEN st
    ELSE IF n = 1 THEN DecimalDigit(st)
    ELSE LET half == DecimalDigits(st, n \div 2)
         IN  IF half.q = <<>> THEN half ELSE DecimalDigits(half, n - n \div 2)

\* the decimal digits of x: it has no more than 0.31 of them for each
\* binary digit, and one
BigToDec(x) == Canon(DecimalDigits([q |-> x, cs |-> <<>>], (BigBitLen(x) * 31) \div 100 + 1).cs)

-----------------------------------------------------------------------------
(* JavaScript numbers: IEEE 754 binary64.  A finite number is its sign and *)
(* m * 2^e with m < 2^53; m >= 2^52 unless the number is 0 (m = 0, e = 0)  *)
(* or subnormal (e = -1074).                                               *)

MantissaBits == 53
MinExponent == -1074
MaxExponent == 971

DblFinite(neg, m, e) == [kind |-> "finite", neg |-> neg, m |-> m, e |-> e]
DblZero(neg) == DblFinite(neg, <<>>, 0)
DblInfinity(neg) == [kind |-> "infinity", neg |-> neg, m |-> <<>>, e |-> 0]
DblNaN == [kind |-> "nan", neg |-> FALSE, m |-> <<>>, e |-> 0]

DblIsZero(d) == d.kind = "finite" /\ d.m = <<>>

\* 2^52, the least m of a normal number
LeastMantissa == BigShl(<<1>>, MantissaBits - 1)

\* one more binary digit of a quotient by B: st.m are its digits so far,
\* st.rem2 < 2 * B is twice the remainder they leave, and the digit is 1 when
\* that is not less than B
QuotientBit(st, B) ==
    LET one == BigCmp(st.rem2, B) >= 0
    IN  [m |-> BigMulAdd(st.m, 2, IF one THEN 1 ELSE 0),
         rem2 |-> BigDouble(IF one THEN BigSub(st.rem2, B) ELSE st.rem2)]

\* p more binary digits: they are zeros once nothing remains
RECURSIVE QuotientBits(_, _, _)
QuotientBits(st, B, p) ==
    IF p = 0 THEN st
    ELSE IF p = 1 THEN QuotientBit(st, B)
    ELSE LET half == QuotientBits(st, B, p \div 2)
         IN  IF half.rem2 = <<>>
             THEN [m |-> BigShl(half.m, p - p \div 2), rem2 |-> <<>>]
             ELSE QuotientBits(half, B, p - p \div 2)

\* the digits qb.m of a quotient by B, rounded to the nearest number of as
\* many digits by what remains, a tie going to the even one
RoundToEven(qb, B) ==
    LET c == BigCmp(qb.rem2, B)
    IN  IF c > 0 \/ (c = 0 /\ BigIsOdd(qb.m)) THEN BigAdd(qb.m, <<>>, 1) ELSE qb.m

\* the number m * 2^e for an m <= 2^53 that has been rounded
DblRounded(neg, m, e) ==
    IF m = <<>> THEN DblZero(neg)
    ELSE IF e + (IF BigBitLen(m) > MantissaBits THEN 1 ELSE 0) > MaxExponent
    THEN DblInfinity(neg)
    ELSE IF BigBitLen(m) > MantissaBits THEN DblFinite(neg, LeastMantissa, e + 1)
    ELSE DblFinite(neg, m, e)

\* the number nearest to X / B * 2^g for 1 <= X / B < 2: it has p binary
\* digits, 53 of them unless it is subnormal
RoundDigits(neg, X, B, g, p) ==
    IF p < 0 THEN DblZero(neg)
    ELSE DblRounded(neg, RoundToEven(QuotientBits([m |-> <<>>, rem2 |-> X], B, p), B),
                    g - p + 1)

\* the number nearest to X / B * 2^g for 1/2 <= X / B < 2
RoundAligned(neg, X, B, g) ==
    IF BigCmp(X, B) < 0
    THEN RoundDigits(neg, BigDouble(X), B, g - 1, Min(MantissaBits, g - MinExponent))
    ELSE RoundDigits(neg, X, B, g, Min(MantissaBits, g - MinExponent + 1))

\* the number nearest to N / D * 2^s, D having k binary digits more than N
RoundByLength(neg, N, D, s, k) ==
    RoundAligned(neg, IF k >= 0 THEN BigShl(N, k) ELSE N,
                 IF k >= 0 THEN D ELSE BigShl(D, -k), s - k)

\* the number nearest to N / D * 2^s, a tie going to the even m: the result
\* of an arithmetic operation whose exact value that is
RoundRatio(neg, N, D, s) ==
    IF N = <<>> THEN DblZero(neg)
    ELSE RoundByLength(neg, N, D, s, BigBitLen(D) - BigBitLen(N))

\* the number nearest to n * 10^exp, pow5 being 5^|exp|
DblOfScaled(neg, n, pow5, exp) ==
    RoundRatio(neg, IF exp >= 0 THEN BigMul(n, pow5) ELSE n,
               IF exp >= 0 THEN <<1>> ELSE pow5, exp)

\* the number a decimal literal stands for: the one nearest to cs * 10^exp
DblOfDecimal(neg, cs, exp) == DblOfScaled(neg, DecToBig(cs), BigPow5(Abs(exp)), exp)

\* a * b
DblMul(a, b) ==
    IF a.kind = "nan" \/ b.kind = "nan" THEN DblNaN
    ELSE IF a.kind = "infinity" \/ b.kind = "infinity"
    THEN IF DblIsZero(a) \/ DblIsZero(b) THEN DblNaN ELSE DblInfinity(a.neg # b.neg)
    ELSE RoundRatio(a.neg # b.neg, BigMul(a.m, b.m), <<1>>, a.e + b.e)

\* a / b
DblDiv(a, b) ==
    IF a.kind = "nan" \/ b.kind = "nan" THEN DblNaN
    ELSE IF a.kind = "infinity"
    THEN IF b.kind = "infinity" THEN DblNaN ELSE DblInfinity(a.neg # b.neg)
    ELSE IF b.kind = "infinity" THEN DblZero(a.neg # b.neg)
    ELSE IF DblIsZero(b)
    THEN IF DblIsZero(a) THEN DblNaN ELSE DblInfinity(a.neg # b.neg)
    ELSE RoundRatio(a.neg # b.neg, a.m, b.m, a.e - b.e)

\* JavaScript values that are arguments and results of the conversions
JsStr(cs) == [type |-> "string", chars |-> cs, neg |-> FALSE, int |-> FALSE, nan |-> FALSE]
\* the integer whose magnitude has the digits cs
JsInt(neg, cs) == [type |-> "number", chars |-> cs, neg |-> neg, int |-> TRUE, nan |-> FALSE]
JsNaN == [type |-> "number", chars |-> <<>>, neg |-> FALSE, int |-> FALSE, nan |-> TRUE]
JsInfinity(neg) ==
    [type |-> "number", chars |-> <<"Infinity">>, neg |-> neg, int |-> FALSE, nan |-> FALSE]
\* 0.5, a number that is no integer
JsHalf == [type |-> "number", chars |-> <<>>, neg |-> FALSE, int |-> FALSE, nan |-> FALSE]
JsUndef == [type |-> "undefined", chars |-> <<>>, neg |-> FALSE, int |-> FALSE, nan |-> FALSE]

\* the integer m * 10^e
IntOf(m, e) == JsInt(m < 0, IF m = 0 THEN <<"0">> ELSE NatToChars(Abs(m)) \o Zeros(e))

\* the number that is the integer v
DblOfInt(v) == DblOfDecimal(v.neg, v.chars, 0)

\* a call returned v, or threw an error with this message
Ret(v) == [kind |-> "return", val |-> v, err |-> ""]
Thr(msg) == [kind |-> "throw", val |-> JsUndef, err |-> msg]
NoResult == [kind |-> "none", val |-> JsUndef, err |-> ""]

InvalidInput == Thr("Invalid input!")

\* reading .denominator of UNITS[unit] when the unit is not in the table
NoSuchUnit == Thr("TypeError: Cannot read property 'denominator' of undefined")

\* the units table of config.js: the exponent k of each denominator 10^k
UNITS == [sat |-> 0, btc |-> 8]

\* the numeric literal mant * 10^exp, as denominators and exchange rates are
Factor(mant, exp) == [mant |-> mant, exp |-> exp]

\* the number a literal stands for
DblOfFactor(f) == DblOfDecimal(f.mant < 0, NatToChars(Abs(f.mant)), f.exp)

\* UNITS[unit].denominator
Denominator(unit) == Factor(1, UNITS[unit])

\* /^[0-9]*[.]?[0-9]*$/.test(cs)
MatchesDecimal(cs) ==
    /\ \A i \in 1..Len(cs) : IsDigit(cs[i]) \/ cs[i] = "."
    /\ Cardinality({i \in 1..Len(cs) : cs[i] = "."}) <= 1

\* the digits of cs before and after its decimal point
IntChars(cs) ==
    IF \E i \in 1..Len(cs) : cs[i] = "."
    THEN SubSeq(cs, 1, (CHOOSE i \in 1..Len(cs) : cs[i] = ".") - 1)
    ELSE cs

FracChars(cs) ==
    IF \E i \in 1..Len(cs) : cs[i] = "."
    THEN SubSeq(cs, (CHOOSE i \in 1..Len(cs) : cs[i] = ".") + 1, Len(cs))
    ELSE <<>>

\* Number(cs) of a string that matches the pattern is NaN exactly for ".";
\* otherwise it is the number nearest to the one with the digits
\* IntChars(cs) \o FracChars(cs) and Len(FracChars(cs)) fraction digits
\* ("" is 0)
Number(cs) ==
    IF cs = <<".">> THEN DblNaN
    ELSE DblOfDecimal(FALSE, IntChars(cs) \o FracChars(cs), -Len(FracChars(cs)))

\* settings.exchangeRate[settings.fiat] || 0
Rate(settings) ==
    IF settings.fiat \in DOMAIN settings.exchangeRate
    THEN settings.exchangeRate[settings.fiat]
    ELSE Factor(0, 0)

\* typeof settings.displayFiat !== 'boolean', or no settings at all
BadSettings(settings) == ~settings.defined \/ settings.displayFiat \notin {True, False}

-----------------------------------------------------------------------------
(* toSatoshis *)

\* the first test of toSatoshis: the amount is a string of the pattern
ToSatoshisTakes(amount) == amount.type = "string" /\ MatchesDecimal(amount.chars)

\* the magnitude of Math.round(d) for -d.e binary fraction digits, twice
\* being floor(2 * |d|): the integer nearest to d, a half going up
RoundHalfUp(d, twice) ==
    IF BigIsOdd(twice) /\ (~d.neg \/ BigShl(twice, -d.e - 1) # d.m)
    THEN BigAdd(BigShr(twice, 1), <<>>, 1)
    ELSE BigShr(twice, 1)

RoundedMagnitude(d) ==
    IF d.e >= 0 THEN BigShl(d.m, d.e) ELSE RoundHalfUp(d, BigShr(d.m, -d.e - 1))

\* Math.round(d)
MathRound(d) ==
    IF d.kind = "nan" THEN JsNaN
    ELSE IF d.kind = "infinity" THEN JsInfinity(d.neg)
    ELSE JsInt(d.neg, BigToDec(RoundedMagnitude(d)))

toSatoshis(amount, settings) ==
    IF ~ToSatoshisTakes(amount) \/ BadSettings(settings)
    THEN InvalidInput
    ELSE IF settings.displayFiat = True
    THEN Ret(MathRound(DblMul(DblMul(Number(amount.chars), DblOfFactor(Rate(settings))),
                              DblOfFactor(Denominator("btc")))))
    ELSE IF settings.unit \notin DOMAIN UNITS
    THEN NoSuchUnit
    ELSE Ret(MathRound(DblMul(Number(amount.chars), DblOfFactor(Denominator(settings.unit)))))

-----------------------------------------------------------------------------
(* toAmount *)

\* The shortest decimal digits of a number d > 0.  The numbers that are read
\* as d make an interval around it; in units of 2^(d.e - 2) * 10^-F, which
\* make integers of them, d is Y, the interval reaches Wdn below and Wup
\* above it, and its ends are in it when incl.  Yd are the decimal digits of
\* Y, tail is what the last k of them are and pow10 is 10^k.

\* the last k digits of Yd, and the digits before them
TailOf(Yd, k) == DecToBig(SubSeq(PadLeft(Yd, k), Len(PadLeft(Yd, k)) - k + 1, Len(PadLeft(Yd, k))))

KeptOf(Yd, k) == SubSeq(PadLeft(Yd, k + 1), 1, Len(PadLeft(Yd, k + 1)) - k)

\* the multiple of 10^k below Y is in the interval, and the one above
BelowIsIn(tail, Wdn, incl) ==
    LET c == BigCmp(tail, Wdn) IN c < 0 \/ (c = 0 /\ incl)

AboveIsIn(tail, pow10, Wup, incl) ==
    LET c == BigCmp(BigSub(pow10, tail), Wup) IN c < 0 \/ (c = 0 /\ incl)

\* the greatest k for which a multiple of 10^k is in the interval, from a k
\* for which one is
RECURSIVE MostZeros(_, _, _, _, _)
MostZeros(Yd, Wdn, Wup, incl, k) ==
    IF \/ BelowIsIn(TailOf(Yd, k + 1), Wdn, incl)
       \/ AboveIsIn(TailOf(Yd, k + 1), BigPow10(k + 1), Wup, incl)
    THEN MostZeros(Yd, Wdn, Wup, incl, k + 1)
    ELSE k

\* the multiple above is nearer to Y than the one below, or as near and
\* the digit before its zeros is even
AboveIsNearer(kept, tail, pow10) ==
    LET c == BigCmp(BigDouble(tail), pow10)
    IN  c > 0 \/ (c = 0 /\ DigitVal(kept[Len(kept)]) % 2 = 1)

\* the digits before the zeros of the multiple of 10^k that is in the
\* interval, and of two the nearer one
NearestIn(kept, tail, pow10, Wdn, Wup, incl) ==
    IF /\ AboveIsIn(tail, pow10, Wup, incl)
       /\ (~BelowIsIn(tail, Wdn, incl) \/ AboveIsNearer(kept, tail, pow10))
    THEN DecSucc(kept)
    ELSE kept

ShortestAt(Yd, Wdn, Wup, incl, F, k) ==
    [exp |-> k - F,
     digits |-> Canon(NearestIn(KeptOf(Yd, k), TailOf(Yd, k), BigPow10(k), Wdn, Wup, incl))]

\* a multiple of 10^k is in the interval when 10^k is no more than Wdn
ShortestIn(Yd, Wdn, Wup, incl, F) ==
    ShortestAt(Yd, Wdn, Wup, incl, F,
               MostZeros(Yd, Wdn, Wup, incl, ((BigBitLen(Wdn) - 1) * 3) \div 10))

\* U is a quarter of the distance of d from the next number above it; the
\* number below d is half as far when d is a power of two
ShortestBy(d, F, U) ==
    ShortestIn(BigToDec(BigMul(BigMulAdd(d.m, 4, 0), U)),
               IF d.m = LeastMantissa /\ d.e > MinExponent THEN U ELSE BigDouble(U),
               BigDouble(U), ~BigIsOdd(d.m), F)

\* the shortest decimal digits that are read back as the finite number
\* d # 0, and of these the nearest to d: the number digits * 10^exp
ShortestDecimal(d) ==
    IF d.e < 2
    THEN ShortestBy(d, 2 - d.e, BigPow5(2 - d.e))
    ELSE ShortestBy(d, 0, BigShl(<<1>>, d.e - 2))

\* the digits cs without the last drop of them, rounded: a half goes away
\* from zero
RoundHalfExpand(cs, drop) ==
    LET all == PadLeft(cs, drop + 1)
    IN  Canon(IF drop > 0 /\ DigitVal(all[Len(all) - drop + 1]) >= 5
              THEN DecSucc(SubSeq(all, 1, Len(all) - drop))
              ELSE SubSeq(all, 1, Len(all) - drop))

\* the fraction digits fp as they are written, with at least minFD of them
FractionPart(fp, minFD) ==
    IF fp = <<>> /\ minFD = 0 THEN <<>>
    ELSE <<".">> \o fp \o Zeros(Max(minFD - Len(fp), 0))

\* digits of which the last shown ones are fraction digits
FormatShown(neg, scaled, shown, minFD) ==
    (IF neg THEN <<"-">> ELSE <<>>)
        \o SubSeq(scaled, 1, Len(scaled) - shown)
        \o FractionPart(StripZeros(SubSeq(scaled, Len(scaled) - shown + 1, Len(scaled)), minFD),
                        minFD)

\* the integer digits and fd fraction digits that cs are, written with at
\* least minFD and at most maxFD fraction digits
FormatDigits(neg, cs, fd, minFD, maxFD) ==
    FormatShown(neg, PadLeft(RoundHalfExpand(cs, fd - Min(fd, maxFD)), Min(fd, maxFD) + 1),
                Min(fd, maxFD), minFD)

\* the number sd.digits * 10^sd.exp
FormatDecimal(neg, sd, minFD, maxFD) ==
    IF sd.exp >= 0
    THEN FormatDigits(neg, sd.digits \o Zeros(sd.exp), 0, minFD, maxFD)
    ELSE FormatDigits(neg, sd.digits, -sd.exp, minFD, maxFD)

\* the character U+221E, with which Intl.NumberFormat writes Infinity
InfinitySign == "U+221E"

\* new Intl.NumberFormat('en-US', {useGrouping: false, minimumFractionDigits,
\* maximumFractionDigits}).format(d): the shortest decimal digits of d,
\* rounded to maxFD fraction digits (halves away from zero), trailing zeros
\* dropped down to minFD digits, a minus sign for a negative number
FormatNumber(d, minFD, maxFD) ==
    IF d.kind = "nan" THEN <<"NaN">>
    ELSE IF d.kind = "infinity" THEN (IF d.neg THEN <<"-">> ELSE <<>>) \o <<InfinitySign>>
    ELSE FormatDecimal(d.neg,
                       IF DblIsZero(d) THEN [digits |-> <<"0">>, exp |-> 0]
                       ELSE ShortestDecimal(d),
                       minFD, maxFD)

\* the first test of toAmount
ToAmountTakes(satoshis, settings) ==
    /\ satoshis.type = "number" /\ satoshis.int
    /\ ~BadSettings(settings)

\* calculateExchangeRate(satoshis, settings): 'Invalid input!' for satoshis
\* that are no integer; for integer satoshis the second operand of || reads
\* settings.displayFiat, a TypeError when there are no settings and
\* 'Invalid input!' when it is no boolean; otherwise the number
\* satoshis / rate / UNITS.btc.denominator, in fiat mode or not
calculateExchangeRate(satoshis, settings) ==
    IF ~(satoshis.type = "number" /\ satoshis.int)
    THEN InvalidInput
    ELSE IF ~settings.defined
    THEN Thr("TypeError: Cannot read property 'displayFiat' of undefined")
    ELSE IF settings.displayFiat \notin {True, False}
    THEN InvalidInput
    ELSE Ret(DblDiv(DblDiv(DblOfInt(satoshis), DblOfFactor(Rate(settings))),
                    DblOfFactor(Denominator("btc"))))

\* the fraction digits toAmount allows in unit mode
UnitMinDigits == 0
UnitMaxDigits == 8
\* the least fraction digits of a fiat amount
FiatMinDigits == 2
\* the most fraction digits the Intl.NumberFormat of ECMA-402 takes
IntlMaxDigits == 20

\* new Intl.NumberFormat('en-US', options) throws a RangeError when
\* maximumFractionDigits is below minimumFractionDigits or above the most
BadDigitOptions(minFD, maxFD) == maxFD < minFD \/ maxFD > IntlMaxDigits

OutOfRange == Thr("RangeError: maximumFractionDigits value is out of range.")

\* the rest of toAmount once num is computed: an error thrown on the way to
\* num leaves toAmount, otherwise the formatter is made and formats num
FormatAmount(num, minFD, maxFD) ==
    IF num.kind = "throw" THEN num
    ELSE IF BadDigitOptions(minFD, maxFD) THEN OutOfRange
    ELSE Ret(JsStr(FormatNumber(num.val, minFD, maxFD)))

\* (mutant) the unit amount is formatted with the two fraction digits of a
\* fiat amount
toAmountTwoDigits(satoshis, settings, fiatPrecision) ==
    IF ~ToAmountTakes(satoshis, settings)
    THEN InvalidInput
    ELSE IF settings.displayFiat = True
    THEN FormatAmount(calculateExchangeRate(satoshis, settings), FiatMinDigits, fiatPrecision)
    ELSE IF settings.unit \notin DOMAIN UNITS
    THEN NoSuchUnit
    ELSE FormatAmount(Ret(DblDiv(DblOfInt(satoshis), DblOfFactor(Denominator(settings.unit)))),
                      FiatMinDigits, FiatMinDigits)

toAmount(satoshis, settings, fiatPrecision) ==
    IF ~ToAmountTakes(satoshis, settings)
    THEN InvalidInput
    ELSE IF settings.displayFiat = True
    THEN FormatAmount(calculateExchangeRate(satoshis, settings), FiatMinDigits, fiatPrecision)
    ELSE IF settings.unit \notin DOMAIN UNITS
    THEN NoSuchUnit
    ELSE FormatAmount(Ret(DblDiv(DblOfInt(satoshis), DblOfFactor(Denominator(settings.unit)))),
                      UnitMinDigits, UnitMaxDigits)

-----------------------------------------------------------------------------
(* The amount conversions, applied to the arguments of callers *)

\* the strings a caller passes as amount, up to MaxLen characters
AmountAlphabet == {"0", "1", "5", ".", "-"}

RECURSIVE StringsUpTo(_)
StringsUpTo(k) ==
    IF k = 0 THEN {<<>>}
    ELSE LET shorter == StringsUpTo(k - 1)
         IN  shorter \cup {Append(cs, c) : cs \in {x \in shorter : Len(x) = k - 1},
                                           c \in AmountAlphabet}

\* amounts whose product with the rate or the denominator, as JavaScript
\* numbers, is below the product of the decimal numbers
LongAmounts ==
    {JsStr(<<"1", ".", "0", "0", "5">>),
     JsStr(<<"0", ".", "0", "0", "0", "0", "0", "0", "0", "1", "5">>)}

AmountArgs ==
    {JsStr(cs) : cs \in StringsUpTo(MaxLen)} \cup LongAmounts \cup {IntOf(1, 0), JsUndef}

\* integers near the end of those a JavaScript number holds one by one:
\* 2^51 - 1, 2^25 * 10^8 (from where s / 10^8 has 27 binary fraction
\* digits), 3355443200000018 and 3355443200000019 next above it,
\* 3355721806125274, 2^53 - 1, which is Number.MAX_SAFE_INTEGER, and
\* 2^53 + 2, the second number above it
LargeSats ==
    {JsInt(FALSE, <<"2", "2", "5", "1", "7", "9", "9", "8", "1", "3", "6", "8", "5", "2", "4", "7">>),
     JsInt(FALSE, <<"3", "3", "5", "5", "4", "4", "3", "2", "0", "0", "0", "0", "0", "0", "0", "0">>),
     JsInt(FALSE, <<"3", "3", "5", "5", "4", "4", "3", "2", "0", "0", "0", "0", "0", "0", "1", "8">>),
     JsInt(FALSE, <<"3", "3", "5", "5", "4", "4", "3", "2", "0", "0", "0", "0", "0", "0", "1", "9">>),
     JsInt(FALSE, <<"3", "3", "5", "5", "7", "2", "1", "8", "0", "6", "1", "2", "5", "2", "7", "4">>),
     JsInt(FALSE, <<"9", "0", "0", "7", "1", "9", "9", "2", "5", "4", "7", "4", "0", "9", "9", "1">>),
     JsInt(FALSE, <<"9", "0", "0", "7", "1", "9", "9", "2", "5", "4", "7", "4", "0", "9", "9", "4">>)}

\* the values a caller passes as satoshis, among them -0, an integer for
\* Number.isInteger
SatArgs ==
    {IntOf(m, e) : m \in -MaxSat..MaxSat, e \in {0, 7, 8}}
        \cup LargeSats \cup {JsInt(TRUE, <<"0">>), JsHalf, JsNaN, JsInfinity(FALSE), JsUndef, JsStr(<<"1">>)}

\* the settings a caller passes: none, or an object whose displayFiat need
\* not be a boolean, whose unit need not be in the table and whose exchange
\* rates (one usd is 0.000125 bitcoin) need not cover its fiat currency
SettingsArgs ==
    [defined : {TRUE}, displayFiat : {True, False, Undefined, <<"string", "false">>},
     unit : {"sat", "btc", "mbtc"}, fiat : {"usd", "eur"},
     exchangeRate : {[usd |-> Factor(125, -6)]}]
    \cup [defined : {FALSE}, displayFiat : {Undefined}, unit : {"btc"}, fiat : {"usd"},
          exchangeRate : {[usd |-> Factor(125, -6)]}]

\* the fiatPrecision arguments a caller passes (8 is the default, 1 is
\* below the two fraction digits toAmount asks for at least)
Precisions == {1, 2, 8}

\* toAmount(satoshis, settings, fiatPrecision) is called
ToAmountCall ==
    /\ conv.op = "none"
    /\ \E s \in SatArgs, st \in SettingsArgs, p \in Precisions :
        conv' = [op |-> "toAmount", satoshis |-> s, settings |-> st, precision |-> p,
                 amount |-> toAmount(s, st, p), out |-> NoResult]
    /\ UNCHANGED <<asyncVars, arc, til>>

\* calculateExchangeRate(satoshis, settings) is called by itself
CalculateExchangeRateCall ==
    /\ conv.op = "none"
    /\ \E s \in SatArgs, st \in SettingsArgs :
        conv' = [op |-> "calculateExchangeRate", satoshis |-> s, settings |-> st,
                 precision |-> 8, amount |-> NoResult, out |-> calculateExchangeRate(s, st)]
    /\ UNCHANGED <<asyncVars, arc, til>>

\* toSatoshis(amount, settings) is called
ToSatoshisCall ==
    /\ conv.op = "none"
    /\ \E a \in AmountArgs, st \in SettingsArgs :
        conv' = [op |-> "toSatoshis", satoshis |-> JsUndef, settings |-> st,
                 precision |-> 8, amount |-> Ret(a), out |-> toSatoshis(a, st)]
    /\ UNCHANGED <<asyncVars, arc, til>>

\* toSatoshis(toAmount(satoshis, settings), settings): the string toAmount
\* returned is parsed with the same settings
ToSatoshisOfAmount ==
    /\ conv.op = "toAmount"
    /\ conv.amount.kind = "return"
    /\ conv' = [conv EXCEPT !.op = "roundTrip",
                            !.out = toSatoshis(conv.amount.val, conv.settings)]
    /\ UNCHANGED <<asyncVars, arc, til>>

NextConv ==
    \/ ToAmountCall
    \/ CalculateExchangeRateCall
    \/ ToSatoshisCall
    \/ ToSatoshisOfAmount

SpecConv == Init /\ [][NextConv]_vars

-----------------------------------------------------------------------------
(* getTimeTilAvailable *)

\* the block counts a caller passes are integers of magnitude <= MaxBlocks
MaxBlocks == 300

HoursPerDay == 24
BlocksPerHour == 6

\* a % n of JavaScript for n > 0: the remainder has the sign of a
JsRem(a, n) == IF a >= 0 THEN a % n ELSE -((-a) % n)

\* Math.floor(a / n) for integers a and n > 0
FloorDiv(a, n) == a \div n

\* the arguments of getTimeTilAvailable: integers, and values that are none
BlockArg(n) == [type |-> "number", int |-> TRUE, n |-> n]
NonIntegerArgs ==
    {[type |-> "number", int |-> FALSE, n |-> 0],
     [type |-> "string", int |-> FALSE, n |-> 0],
     [type |-> "undefined", int |-> FALSE, n |-> 0]}

\* `${days} ${daysString} and ${hours} ${hoursString}`, by its parts
TimeText(days, daysString, hours, hoursString) ==
    [kind |-> "return", days |-> days, daysString |-> daysString,
     hours |-> hours, hoursString |-> hoursString, err |-> ""]

TimeInvalidInput ==
    [kind |-> "throw", days |-> 0, daysString |-> "", hours |-> 0, hoursString |-> "",
     err |-> "Invalid input!"]

getTimeTilAvailable(numBlocks) ==
    IF ~(numBlocks.type = "number" /\ numBlocks.int)
    THEN TimeInvalidInput
    ELSE LET days == FloorDiv(numBlocks.n, HoursPerDay * BlocksPerHour)
             hours == FloorDiv(JsRem(numBlocks.n, HoursPerDay * BlocksPerHour), BlocksPerHour)
         IN  TimeText(days, IF days = 1 THEN "day" ELSE "days",
                      hours, IF hours = 1 THEN "hour" ELSE "hours")

\* getTimeTilAvailable(numBlocks) is called
GetTimeTilAvailableCall ==
    /\ til.op = "none"
    /\ \E b \in {BlockArg(n) : n \in -MaxBlocks..MaxBlocks} \cup NonIntegerArgs :
        til' = [op |-> "getTimeTilAvailable", numBlocks |-> b, out |-> getTimeTilAvailable(b)]
    /\ UNCHANGED <<asyncVars, conv, arc>>

NextTil == GetTimeTilAvailableCall

SpecTil == Init /\ [][NextTil]_vars

-----------------------------------------------------------------------------
(* generateArc and the spinner that draws with it.  Angles are whole        *)
(* degrees, multiples of 18; coordinates are in units of 1/10000.           *)

\* the end angles a caller passes are 18 * k degrees with 0 <= k <= MaxSteps
MaxSteps == 30

DegreesPerStep == 18
FullCircle == 360
Scale == 10000

\* 10000 * cos of 0, 18, 36, 54, 72 and 90 degrees
CosTable == <<10000, 9511, 8090, 5878, 3090, 0>>

\* 10000 * cos(deg) for a multiple of 18 degrees
Cos(deg) ==
    LET d == deg % FullCircle
        k == d \div DegreesPerStep
    IN  IF k <= 5 THEN CosTable[k + 1]
        ELSE IF k <= 10 THEN -CosTable[10 - k + 1]
        ELSE IF k <= 15 THEN -CosTable[k - 10 + 1]
        ELSE CosTable[20 - k + 1]

\* 10000 * sin(deg)
Sin(deg) == Cos(deg - 90)

\* the point at angleInDegrees, measured clockwise from the top
polarToCartesian(centerX, centerY, radius, angleInDegrees) ==
    [x |-> centerX * Scale + radius * Cos(angleInDegrees - 90),
     y |-> centerY * Scale + radius * Sin(angleInDegrees - 90)]

\* 0.01, by which end.x is moved
Nudge == 100

\* the path M x y L start.x start.y A radius radius 0 largeArcFlag sweepFlag
\* end.x end.y Z, by its parts
generateArc(x, y, radius, startAngle, endAngle) ==
    LET start == polarToCartesian(x, y, radius, endAngle)
        end == polarToCartesian(x, y, radius, startAngle)
    IN  [x |-> x, y |-> y, radius |-> radius,
         start |-> start,
         end |-> [end EXCEPT !.x = IF endAngle = FullCircle THEN @ - Nudge ELSE @],
         largeArcFlag |-> IF endAngle - startAngle <= 180 THEN "0" ELSE "1",
         sweepFlag |-> IF endAngle = FullCircle THEN "1" ELSE "0"]

\* the percentages of the spinner are k / 20, written as k
Twentieths == 0..20

\* percentage * 360 for the percentage k / 20
PercentToAngle(k) == k * DegreesPerStep

\* the widths of the spinners
Widths == {100, 200}

\* generateArc is called with angles of the caller's choice
GenerateArcCall ==
    /\ arc.op = "none"
    /\ \E w \in Widths, a \in Twentieths, b \in 0..MaxSteps :
        arc' = [op |-> "generateArc", continuous |-> FALSE,
                startAngle |-> a * DegreesPerStep, endAngle |-> b * DegreesPerStep,
                out |-> generateArc(w \div 2, w \div 2, w \div 2,
                                    a * DegreesPerStep, b * DegreesPerStep)]
    /\ UNCHANGED <<asyncVars, conv, til>>

\* SpinnerProgress renders: from 0 to percentage, or, when continuous, from
\* percentage to percentage + 0.4
SpinnerProgress ==
    /\ arc.op = "none"
    /\ \E continuous \in BOOLEAN, w \in Widths, k \in Twentieths :
        LET startAngle == IF continuous THEN PercentToAngle(k) ELSE 0
            \* 0.4 is 8 / 20
            endAngle == IF continuous THEN PercentToAngle(k + 8)
                        ELSE PercentToAngle(k)
        IN  arc' = [op |-> "SpinnerProgress", continuous |-> continuous,
                    startAngle |-> startAngle, endAngle |-> endAngle,
                    out |-> generateArc(w \div 2, w \div 2, w \div 2, startAngle, endAngle)]
    /\ UNCHANGED <<asyncVars, conv, til>>

NextArc ==
    \/ SpinnerProgress
    \/ GenerateArcCall

SpecArc == Init /\ [][NextArc]_vars

-----------------------------------------------------------------------------
(* Properties of the amount conversions *)

\* settings in unit mode (displayFiat false) whose unit is in the table
UnitSettings(st) == st.defined /\ st.displayFiat = False /\ st.unit \in DOMAIN UNITS

\* settings that are well formed: displayFiat is a boolean and, in unit
\* mode, the unit is in the table
ValidSettings(st) ==
    st.defined /\ (st.displayFiat = True \/ (st.displayFiat = False /\ st.unit \in DOMAIN UNITS))

\* toSatoshis(toAmount(s, settings), settings) was computed for an integer s
\* in unit mode
RoundTripDone ==
    /\ conv.op = "roundTrip"
    /\ conv.satoshis.type = "number" /\ conv.satoshis.int
    /\ UnitSettings(conv.settings)

\* C6 as claimed: for every integer s, negative ones included, and settings
\* in unit mode, toSatoshis(toAmount(s, settings), settings) returns s.
C6_RoundTripAllIntegers ==
    RoundTripDone => conv.out = Ret(conv.satoshis)

\* 3355443200000019, the least integer that btc amounts do not bring back:
\* below 2^25 * 10^8 the number s / 10^8 is off the quotient by no more
\* than 2^-29, and its product with 10^8 by less than a quarter of one
RoundTripLimit == DecToBig(<<"3", "3", "5", "5", "4", "4", "3", "2", "0", "0", "0", "0", "0", "0", "1", "9">>)

\* C6 as amended: for settings in unit mode, toSatoshis(toAmount(s,
\* settings), settings) returns s for every integer s >= 0 other than -0
\* when the denominator is 1 (sat), and for those below 3355443200000019
\* when it is 10^8 (btc), where 3355443200000019 comes back as
\* 3355443200000020; for s < 0 and for -0 toAmount returns a string that
\* starts with a minus sign and toSatoshis throws 'Invalid input!'.
C6_RoundTripNonNegative ==
    RoundTripDone =>
        IF conv.satoshis.neg
        THEN /\ conv.amount.val.chars[1] = "-"
             /\ conv.out = InvalidInput
        ELSE IF \/ UNITS[conv.settings.unit] = 0
                \/ BigCmp(DecToBig(conv.satoshis.chars), RoundTripLimit) < 0
        THEN conv.out = Ret(conv.satoshis)
        ELSE DecToBig(conv.satoshis.chars) = RoundTripLimit
                 => conv.out = Ret(JsInt(FALSE, DecSucc(conv.satoshis.chars)))

\* 3355443200000019 satoshis were formatted as "33554432.00000019" btc and
\* parsed back as 3355443200000020: the product of the amount and 10^8 is
\* a half above the integer
C6_LargeIntegerIsOff ==
    /\ RoundTripDone
    /\ conv.settings.unit = "btc"
    /\ conv.satoshis = JsInt(FALSE, <<"3", "3", "5", "5", "4", "4", "3", "2", "0", "0", "0", "0", "0", "0", "1", "9">>)
    /\ conv.amount = Ret(JsStr(<<"3", "3", "5", "5", "4", "4", "3", "2", ".", "0", "0", "0", "0", "0", "0", "1", "9">>))
    /\ conv.out = Ret(JsInt(FALSE, <<"3", "3", "5", "5", "4", "4", "3", "2", "0", "0", "0", "0", "0", "0", "2", "0">>))

\* toAmount(-0, settings) returned "-0", which toSatoshis took for no amount
C6_NegativeZeroIsRejected ==
    /\ RoundTripDone
    /\ conv.satoshis = JsInt(TRUE, <<"0">>)
    /\ conv.amount = Ret(JsStr(<<"-", "0">>))
    /\ conv.out = InvalidInput

\* 120000000 satoshis were formatted as "1.2" btc and parsed back
C6_Witness ==
    /\ RoundTripDone
    /\ conv.settings.unit = "btc"
    /\ conv.satoshis = IntOf(12, 7)
    /\ conv.amount = Ret(JsStr(<<"1", ".", "2">>))
    /\ conv.out = Ret(IntOf(12, 7))

\* C7 as claimed: toSatoshis throws 'Invalid input!' when the amount is no
\* string of the decimal pattern or the settings are absent or have no
\* boolean displayFiat; for every other amount and well-formed settings it
\* returns an integer, never NaN.
C7_ToSatoshisTwoOutcomes ==
    (conv.op \in {"toSatoshis", "roundTrip"}) =>
        IF \/ conv.amount.val.type # "string"
           \/ ~MatchesDecimal(conv.amount.val.chars)
           \/ BadSettings(conv.settings)
        THEN conv.out = InvalidInput
        ELSE ValidSettings(conv.settings) =>
                 /\ conv.out.kind = "return"
                 /\ conv.out.val.type = "number"
                 /\ conv.out.val.int
                 /\ ~conv.out.val.nan

-----------------------------------------------------------------------------
(* Properties of getTimeTilAvailable and generateArc *)

\* C9 as claimed: for every integer numBlocks, negative ones included,
\* days = floor(numBlocks / 144) and hours = floor((numBlocks mod 144) / 6),
\* so that 0 <= hours <= 23 and days*144 + hours*6 <= numBlocks <
\* days*144 + hours*6 + 6; the words are singular exactly for a count of 1;
\* a numBlocks that is no integer fails with 'Invalid input!'.
C9_TimeTilAvailable ==
    til.op = "getTimeTilAvailable" =>
        IF til.numBlocks.type = "number" /\ til.numBlocks.int
        THEN LET n == til.numBlocks.n
                 o == til.out
             IN  /\ o.kind = "return"
                 /\ o.days = n \div 144
                 /\ o.hours = (n % 144) \div 6
                 /\ 0 <= o.hours /\ o.hours <= 23
                 /\ o.days * 144 + o.hours * 6 <= n
                 /\ n < o.days * 144 + o.hours * 6 + 6
                 /\ (o.daysString = "day") = (o.days = 1)
                 /\ (o.daysString = "days") = (o.days # 1)
                 /\ (o.hoursString = "hour") = (o.hours = 1)
                 /\ (o.hoursString = "hours") = (o.hours # 1)
        ELSE til.out = TimeInvalidInput

\* C8 as claimed: the sweep flag is '1' and end.x is moved by -0.01 if and
\* only if endAngle - startAngle is exactly 360; for every other pair of
\* angles, those of the continuous spinner included, the sweep flag is '0'
\* and the end point is the point at startAngle.
C8_SweepIffFullSpan ==
    arc.op # "none" =>
        LET o == arc.out
            plain == polarToCartesian(o.x, o.y, o.radius, arc.startAngle)
        IN  IF arc.endAngle - arc.startAngle = 360
            THEN o.sweepFlag = "1" /\ o.end.x = plain.x - 100 /\ o.end.y = plain.y
            ELSE o.sweepFlag = "0" /\ o.end = plain

-----------------------------------------------------------------------------
(* Properties of poll and retry *)

\* the invocations of api() made so far
Invocations == Cardinality({i \in 1..Len(trace) : trace[i][1] = "invoke"})

\* every invocation so far resolved with a falsy value
AllFalsy == \A i \in 1..Len(log) : log[i].kind = "resolve" /\ ~Truthy(log[i].val)

\* every invocation so far failed
AllFailed == \A i \in 1..Len(log) : log[i].kind = "reject"

\* the last event of the call is the settlement of an invocation: nothing
\* was invoked and no nap was started after it
EndsWithSettle == trace # <<>> /\ trace[Len(trace)] = <<"settle", 0>>

\* a non-negative integer retries argument
FiniteBudget == ~maxAttempts.inf /\ maxAttempts.n >= 0

\* C1: with a non-negative integer maxAttempts and an operation that resolves
\* falsy every time, poll never invokes it more than maxAttempts times, ends
\* only after exactly maxAttempts invocations, and then ends by throwing the
\* 'Maximum retries for polling reached' error; that error is never thrown
\* after fewer invocations.
C1_PollExhaustsBudget ==
    (fn = "poll" /\ FiniteBudget) =>
        /\ AllFalsy => Invocations <= maxAttempts.n
        /\ (AllFalsy /\ pc = "done") =>
               /\ Invocations = maxAttempts.n
               /\ Len(log) = maxAttempts.n
               /\ outcome = Throw(MaxRetriesExceeded, 284)
        /\ (outcome.kind = "throw" /\ outcome.val = MaxRetriesExceeded) =>
               /\ Invocations = maxAttempts.n
               /\ AllFalsy

\* poll(opThatAlwaysReturnsFalsy, 1, 3) has failed after 3 invocations
C1_Witness ==
    /\ fn = "poll" /\ pc = "done" /\ interval = 1 /\ maxAttempts = Num(3)
    /\ Len(log) = 3 /\ AllFalsy /\ Invocations = 3
    /\ outcome = Throw(MaxRetriesExceeded, 284)

\* C2: with a positive integer maxAttempts and an operation that fails every
\* time, retry invokes it at most maxAttempts times, ends only after exactly
\* maxAttempts invocations, and ends by rethrowing the failure of the last
\* invocation; whenever retry throws, what it throws is the failure of the
\* maxAttempts-th invocation, never the polling error.
C2_RetryRethrowsLast ==
    (fn = "retry" /\ FiniteBudget /\ maxAttempts.n >= 1) =>
        /\ AllFailed => Invocations <= maxAttempts.n
        /\ (AllFailed /\ pc = "done") =>
               /\ Invocations = maxAttempts.n
               /\ Len(log) = maxAttempts.n
               /\ outcome = Throw(log[Len(log)].val, 301)
        /\ outcome.kind = "throw" =>
               /\ Len(log) = maxAttempts.n
               /\ AllFailed
               /\ outcome.val = log[maxAttempts.n].val
               /\ outcome.val # MaxRetriesExceeded

\* retry(opThatThrowsAlways, 1, 3) has rethrown the third failure, which
\* differs from the first
C2_Witness ==
    /\ fn = "retry" /\ pc = "done" /\ interval = 1 /\ maxAttempts = Num(3)
    /\ Len(log) = 3 /\ AllFailed /\ Invocations = 3
    /\ log[1].val # log[3].val
    /\ outcome = Throw(log[3].val, 301)

\* C3: in poll a failed invocation is the last one: the call is over, its
\* outcome is that failure, and nothing was invoked and no nap was started
\* after it, whatever is left of the budget.
C3_PollPropagatesFailure ==
    fn = "poll" =>
        \A i \in 1..Len(log) :
            log[i].kind = "reject" =>
                /\ i = Len(log)
                /\ pc = "done"
                /\ outcome = Throw(log[i].val, 280)
                /\ Invocations = i
                /\ outstanding = 0
                /\ EndsWithSettle

\* poll with three attempts allowed has failed at the second invocation
C3_Witness ==
    /\ fn = "poll" /\ pc = "done" /\ maxAttempts = Num(3)
    /\ Len(log) = 2 /\ log[1].kind = "resolve" /\ log[2].kind = "reject"
    /\ outcome = Throw(log[2].val, 280)
    /\ NumTruthy(retries)

\* C4: what poll returns is the result of the first invocation that resolved
\* truthy: every earlier invocation resolved falsy, and a truthy result ends
\* the call with nothing invoked and no nap started after it.
C4_PollReturnsFirstTruthy ==
    fn = "poll" =>
        /\ outcome.kind = "return" =>
               /\ pc = "done"
               /\ log # <<>>
               /\ outcome = Return(log[Len(log)].val, 281)
               /\ Truthy(outcome.val)
               /\ \A j \in 1..(Len(log) - 1) :
                      log[j].kind = "resolve" /\ ~Truthy(log[j].val)
        /\ \A i \in 1..Len(log) :
               (log[i].kind = "resolve" /\ Truthy(log[i].val)) =>
                   /\ i = Len(log)
                   /\ outcome = Return(log[i].val, 281)
                   /\ Invocations = i
                   /\ outstanding = 0
                   /\ EndsWithSettle

\* poll has returned the truthy result of its third invocation
C4_Witness ==
    /\ fn = "poll" /\ pc = "done"
    /\ Len(log) = 3 /\ ~Truthy(log[1].val) /\ ~Truthy(log[2].val)
    /\ log[3] = [kind |-> "resolve", val |-> Obj]
    /\ outcome = Return(Obj, 281)

\* C5: in retry an invocation that resolves is the last one: retry returns
\* exactly its result, truthy or falsy, and nothing is invoked after it.
C5_RetryReturnsFirstSuccess ==
    fn = "retry" =>
        \A i \in 1..Len(log) :
            log[i].kind = "resolve" =>
                /\ i = Len(log)
                /\ pc = "done"
                /\ outcome = Return(log[i].val, 299)
                /\ Invocations = i
                /\ outstanding = 0
                /\ EndsWithSettle
                /\ \A j \in 1..(i - 1) : log[j].kind = "reject"

\* retry has returned the falsy result 0 of its second invocation
C5_Witness ==
    /\ fn = "retry" /\ pc = "done"
    /\ Len(log) = 2 /\ log[1].kind = "reject"
    /\ log[2] = [kind |-> "resolve", val |-> Zero]
    /\ outcome = Return(Zero, 299)
    /\ NumTruthy(retries)

\* C10 as claimed: a retry call that has ended, whatever maxAttempts was
\* (0 included), returned the result of an invocation that resolved or
\* rethrew the failure of an invocation: `return null` is never reached.
C10_NullExitUnreachable ==
    (fn = "retry" /\ pc = "done") =>
        /\ outcome.line # 305
        /\ log # <<>>
        /\ outcome.val = log[Len(log)].val

\* C10 as amended: `return null` is reached exactly by the calls with
\* maxAttempts = 0, which invoke nothing; every retry call with another
\* maxAttempts that has ended returned the result of its last invocation
\* or rethrew its failure.
C10_NullExitOnlyForZero ==
    (fn = "retry" /\ pc = "done") =>
        IF maxAttempts = Num(0)
        THEN outcome = Return(Null, 305) /\ log = <<>> /\ Invocations = 0
        ELSE /\ outcome.line \in {299, 301}
             /\ log # <<>>
             /\ outcome.val = log[Len(log)].val
             /\ outcome.kind = (IF log[Len(log)].kind = "resolve" THEN "return" ELSE "throw")

\* a retry call with a positive maxAttempts has ended after its last allowed
\* attempt failed
C10_Witness ==
    /\ fn = "retry" /\ pc = "done" /\ maxAttempts = Num(2)
    /\ Len(log) = 2 /\ AllFailed
    /\ retries = Num(0)
    /\ outcome.line = 301

\* C11 as claimed: with a finite maxAttempts, negative ones included, poll
\* invokes the operation at most maxAttempts times (never, when maxAttempts
\* is zero or negative), so that only the default Infinity lets a call go on
\* without end.
C11_PollBoundedByBudget ==
    (fn = "poll" /\ ~maxAttempts.inf) =>
        /\ Invocations <= maxAttempts.n
        /\ (maxAttempts.n <= 0 => pc = "done" /\ outcome = Throw(MaxRetriesExceeded, 284))

\* what holds of C11: with a non-negative integer maxAttempts, a poll call
\* whose invocations settle and whose naps end is over at last, after at
\* most maxAttempts invocations
C11_PollTerminatesNonNegative ==
    /\ [](fn = "poll" /\ FiniteBudget => Invocations <= maxAttempts.n)
    /\ (fn = "poll" /\ FiniteBudget) ~> (pc = "done")

\* a poll call with a negative maxAttempts is at its second invocation
C11_NegativeBudgetGoesOn ==
    /\ fn = "poll" /\ maxAttempts = Num(-1)
    /\ pc = "await_api" /\ Invocations = 2 /\ retries = Num(-3)

\* the events of one call, by kind
IsInvoke(i) == trace[i][1] = "invoke"
IsSettle(i) == trace[i] = <<"settle", 0>>
IsNap(i) == trace[i] = <<"nap", interval>>
IsWake(i) == trace[i] = <<"wake", interval>>

\* C12: within one poll or retry call, invocations and sleeps alternate.  At
\* most one invocation is outstanding, and it is outstanding exactly while the
\* call awaits it.  An invocation is the first event of the call or comes
\* straight after the end of a sleep of `interval` ms that was started straight
\* after the previous invocation settled.  A sleep is started only after a
\* settlement, and it is the only thing awaited until it ends.  retry starts
\* no sleep once its last allowed attempt has failed: the call is over with
\* that settlement.
C12_InvocationsAndNapsAlternate ==
    fn \in {"poll", "retry"} =>
        /\ outstanding \in {0, 1}
        /\ outstanding = 1 <=> pc = "await_api"
        /\ pc = "await_api" <=> (trace # <<>> /\ IsInvoke(Len(trace)))
        /\ pc = "await_nap" <=> (trace # <<>> /\ IsNap(Len(trace)))
        /\ \A i \in 1..Len(trace) :
            /\ IsInvoke(i) =>
                \/ i = 1
                \/ i >= 5 /\ IsInvoke(i - 4) /\ IsSettle(i - 3) /\ IsNap(i - 2) /\ IsWake(i - 1)
            /\ IsSettle(i) => i > 1 /\ IsInvoke(i - 1)
            /\ IsNap(i) => i > 1 /\ IsSettle(i - 1)
            /\ IsWake(i) => i > 1 /\ IsNap(i - 1)
            /\ IsInvoke(i) \/ IsSettle(i) \/ IsNap(i) \/ IsWake(i)
        /\ (/\ fn = "retry" /\ FiniteBudget /\ maxAttempts.n >= 1
            /\ Len(log) = maxAttempts.n /\ log[Len(log)].kind = "reject") =>
                /\ pc = "done"
                /\ EndsWithSettle
                /\ Cardinality({i \in 1..Len(trace) : IsNap(i)}) = maxAttempts.n - 1

\* a retry call with three attempts, 100 ms apart, has failed three times: it
\* slept twice, between the attempts, and not after the last one
C12_Witness ==
    /\ fn = "retry" /\ maxAttempts = Num(3) /\ interval = 100
    /\ pc = "done" /\ AllFailed /\ Len(log) = 3
    /\ trace = << <<"invoke", 0>>, <<"settle", 0>>, <<"nap", 100>>, <<"wake", 100>>,
                  <<"invoke", 0>>, <<"settle", 0>>, <<"nap", 100>>, <<"wake", 100>>,
                  <<"invoke", 0>>, <<"settle", 0>> >>

====
